---- MODULE Spec2Model ----
(***************************************************************************)
(* Shared whiteboard: several server processes (nodes) terminate client   *)
(* socket connections, persist strokes in one Redis list and fan events   *)
(* out to the clients of every node.  Two variants of the server exist:   *)
(*   "pubsub"  - src/server.js: own Redis pub/sub channel + local cache   *)
(*   "adapter" - src/unnamed/part_000: socket.io Redis adapter, no cache  *)
(* The variant is chosen in Init and never changes.                       *)
(***************************************************************************)
EXTENDS Integers, Sequences, FiniteSets

VARIABLES
  impl,       \* which server file the processes run
  node,       \* node[s]: the node connection s landed on
  store,      \* the Redis list whiteboard:strokes (serialized strokes)
  strokes,    \* strokes[n]: server.js local cache of node n
  inbox,      \* inbox[n]: bus messages delivered to n, not yet handled
  conn,       \* conn[s]: "open" or "closed"
  userId,     \* userId[s]: the closure variable userId of connection s
  tasks,      \* async handlers in flight (suspended at an await)
  pipe,       \* pipe[n]: the handlers of node n awaiting a Redis reply,
              \*          in the order their commands were sent
  board,      \* board[s]: what client s shows after the pushes it received
  got,        \* got[s]: the strokes client s received in a draw push
  sent,       \* sent[s]: the last event the server emitted to socket s
  ops,        \* number of draw / clear commands accepted so far
  regs,       \* number of register commands received so far
  applied,    \* the commands whose Store mutation has completed
  prior,      \* the Store's contents when the clients arrive
  pending,    \* the node whose init-sync was in flight then (or NoId)
  dropped     \* number of commands that returned at "if (!userId) return"

vars == << impl, node, store, strokes, inbox, conn, userId, tasks, pipe,
           board, got, sent, ops, regs, applied, prior, pending, dropped >>

----------------------------------------------------------------------------
(* Bounds and finite input sets *)

MaxOps == 2
MaxRegs == 1
MaxDropped == 1

Nodes == {"n1", "n2"}
Sessions == {"s1", "s2"}
NoId == "none"

\* the nodes a connection may land on (the load balancer's choice)
Landing == [s1 |-> {"n1"}, s2 |-> Nodes]

\* the load balancer sends the two connections to different nodes
Apart == [s1 |-> {"n1"}, s2 |-> {"n2"}]

\* the node whose init-sync is still in flight when the clients arrive
PendingNodes == {"n2"}

\* connections that have registered before the first step, and as whom
Registered == [s1 |-> "u1", s2 |-> NoId]

\* the userId field a client may send with register
RegisterInputs(s) == IF s = "s1" THEN {"u1", "u2"} ELSE {"u2", NoId}

\* strokes left in the Store by earlier runs of the servers
PriorBoards ==
  { << >>,
    << [data |-> -3, userId |-> "u1"],
       [data |-> -2, userId |-> "u2"],
       [data |-> -1, userId |-> "u1"] >> }

----------------------------------------------------------------------------
(* Pure helpers *)

\* JSON.stringify(stroke): the stroke's fields as key/value text, data first
Stringify(s) == << <<"data", s.data>>, <<"userId", s.userId>> >>

\* JSON.parse of one list element
Parse(j) == [data |-> j[1][2], userId |-> j[2][2]]

\* items.map((s) => JSON.parse(s))
ParseAll(q) == [i \in 1..Len(q) |-> Parse(q[i])]

\* remaining.map((s) => JSON.stringify(s))
StringifyAll(q) == [i \in 1..Len(q) |-> Stringify(q[i])]

RECURSIVE Filter(_, _)
\* Array.prototype.filter((s) => s.userId !== u)
Filter(q, u) ==
  IF q = << >> THEN << >>
  ELSE IF Head(q).userId # u THEN << Head(q) >> \o Filter(Tail(q), u)
       ELSE Filter(Tail(q), u)

\* the payload a client sends with draw number d: the drawing, and a userId
\* field naming a user the session is never registered as
DrawPayload(s, d) ==
  [data |-> d, userId |-> IF s = "s1" THEN "S2" ELSE "u1"]

\* mutant: { userId, ...data }, the payload's own userId field wins
MakeStrokeKeepPayload(data, u) == [data |-> data.data, userId |-> data.userId]

\* const stroke = { ...data, userId }
MakeStroke(data, u) == [data |-> data.data, userId |-> u]

\* socket.id.slice(0, 5).toUpperCase()
SocketUser(s) == IF s = "s1" THEN "S1" ELSE "S2"

\* data?.userId || socket.id.slice(0,5).toUpperCase()
AssignUserId(s, given) == IF given = NoId THEN SocketUser(s) ELSE given

\* lRange(key, 0, -1) followed by items.map(JSON.parse)
loadBoardFromRedis == ParseAll(store)

\* the same helper in part_000
getFullBoard == ParseAll(store)

----------------------------------------------------------------------------
(* Client side: the board a client shows after a push *)

ClientApply(b, ev, payload) ==
  CASE ev = "init-board"  -> payload
    [] ev = "reset-board" -> payload
    [] ev = "draw"        -> Append(b, payload)
    [] ev = "clear-all"   -> << >>
    [] OTHER              -> b

\* push ev to every connected socket in the set to
Push(to, ev, payload) ==
  /\ got' = [s \in Sessions |->
               IF s \in to /\ conn[s] = "open" /\ ev = "draw"
               THEN got[s] \cup {payload.data} ELSE got[s]]
  /\ board' = [s \in Sessions |->
               IF s \in to /\ conn[s] = "open"
               THEN ClientApply(board[s], ev, payload) ELSE board[s]]
  /\ sent' = [s \in Sessions |->
               IF s \in to /\ conn[s] = "open"
               THEN [ev |-> ev, payload |-> payload] ELSE sent[s]]

LocalSockets(n) == {s \in Sessions : node[s] = n}

----------------------------------------------------------------------------
(* Bus *)

\* op and from name the command and the connection an event stems from
Msg(type, payload, op, from, except) ==
  [type |-> type, payload |-> payload, op |-> op, from |-> from,
   except |-> except]

\* mutant: the event reaches only the node that published it
PublishOwnNode(m) ==
  inbox' = [n \in Nodes |->
              IF n = node[m.from] THEN Append(inbox[n], m) ELSE inbox[n]]

\* redisClient.publish(REDIS_CHANNEL, ...): every subscribed node gets it
Publish(m) == inbox' = [n \in Nodes |-> Append(inbox[n], m)]

\* the adapter's publish: every other node gets it
PublishOthers(m, self) ==
  inbox' = [n \in Nodes |->
              IF n # self THEN Append(inbox[n], m) ELSE inbox[n]]

NoStroke == [data |-> 0, userId |-> NoId]

\* a suspended handler: its position and its local constants
Task(kind, s, n, pc, op, stroke, b, r) ==
  [kind |-> kind, sess |-> s, node |-> n, pc |-> pc, op |-> op,
   stroke |-> stroke, board |-> b, remaining |-> r]

Goto(t, pc) == [t EXCEPT !.pc = pc]

\* bookkeeping: command op of connection s, registered as u, has written
Done(op, kind, s, u) == [op |-> op, kind |-> kind, sess |-> s, user |-> u]

\* start-up code of server.js: a node subscribes, then publishes init-sync.
\* Both nodes have started; node p has not handled the last init-sync
\* yet, the other node has (its cache holds the Store's contents).
StartupInbox(p) ==
  [n \in Nodes |->
     IF impl = "pubsub" /\ n = p
     THEN << Msg("init-sync", NoStroke, 0, NoId, NoId) >> ELSE << >>]

\* let strokes = []; or the board the handled init-sync loaded
StartupCache(p, b) ==
  [n \in Nodes |-> IF impl = "pubsub" /\ n # p THEN b ELSE << >>]

\* the type tags the subscriber of server.js has a case for
KnownTypes == {"init-sync", "draw", "clear-all", "clear-user"}

\* messages of another publisher on the channel: an unknown type tag, and
\* a draw without payload (NoStroke stands for the missing payload)
Malformed ==
  { Msg("noise", NoStroke, 0, NoId, NoId),
    Msg("draw", NoStroke, 0, NoId, NoId) }

----------------------------------------------------------------------------
\* pendings: the nodes whose init-sync may still be in flight (NoId: none)
\* landing: the nodes each connection may land on
\* boards: the boards the Store may hold then
\* foreign: what another publisher may have put on the channel by then
Start(pendings, landing, boards, foreign) ==
  /\ impl \in {"pubsub", "adapter"}
  /\ node \in {f \in [Sessions -> Nodes] : \A s \in Sessions : f[s] \in landing[s]}
  /\ store \in {StringifyAll(b) : b \in boards}
  /\ prior = store
  /\ pending \in (IF impl = "pubsub" THEN pendings ELSE {NoId})
  /\ \E f \in foreign :
       inbox = [n \in Nodes |->
                  StartupInbox(pending)[n]
                    \o (IF impl = "pubsub" THEN f ELSE << >>)]
  /\ strokes = StartupCache(pending, ParseAll(store))
  /\ conn = [s \in Sessions |-> "open"]
  /\ userId = [s \in Sessions |-> Registered[s]]
  /\ tasks = {}
  /\ pipe = [n \in Nodes |-> << >>]
  /\ board = [s \in Sessions |->
                IF Registered[s] = NoId THEN << >> ELSE ParseAll(store)]
  /\ got = [s \in Sessions |-> {}]
  /\ sent = [s \in Sessions |->
               IF Registered[s] = NoId
               THEN [ev |-> "none", payload |-> << >>]
               ELSE [ev |-> "init-board", payload |-> ParseAll(store)]]
  /\ ops = 0
  /\ regs = 0
  /\ applied = {}
  /\ dropped = 0

Init == Start(PendingNodes \cup {NoId}, Landing, PriorBoards, {<< >>})

----------------------------------------------------------------------------
(* Task bookkeeping.  A task is a handler suspended at an await.  Redis    *)
(* serves the commands of one connection in the order they were sent, so   *)
(* a handler's first Store command is served in the step that starts it;   *)
(* ok says whether that command succeeds.  The replies come back in that   *)
(* order too: of the handlers of one node, the one whose command was sent  *)
(* first resumes first.                                                    *)

\* the handlers waiting in the pipes p
Waiting(p) == UNION {{p[n][i] : i \in 1..Len(p[n])} : n \in Nodes}

\* the handler sends a command and suspends
Spawn(t) ==
  /\ pipe' = [pipe EXCEPT ![t.node] = Append(@, t)]
  /\ tasks' = Waiting(pipe')

\* the oldest reply of the node is t's: t resumes, sends its next command
\* and suspends as t2
Advance(t, t2) ==
  /\ Head(pipe[t.node]) = t
  /\ pipe' = [pipe EXCEPT ![t.node] = Append(Tail(@), t2)]
  /\ tasks' = Waiting(pipe')

\* mutant: a handler resumes whatever the order of the replies
FinishAnyOrder(t) ==
  /\ \E i \in 1..Len(pipe[t.node]) :
       /\ pipe[t.node][i] = t
       /\ pipe' = [pipe EXCEPT ![t.node] =
                          SubSeq(@, 1, i - 1) \o SubSeq(@, i + 1, Len(@))]
  /\ tasks' = Waiting(pipe')

\* the oldest reply of the node is t's: t resumes and runs to its end
Finish(t) ==
  /\ Head(pipe[t.node]) = t
  /\ pipe' = [pipe EXCEPT ![t.node] = Tail(@)]
  /\ tasks' = Waiting(pipe')

----------------------------------------------------------------------------
(* Connections (socket.io transport) *)

\* socket.on("disconnect"): only logs
Disconnect(s) ==
  /\ conn[s] = "open"
  /\ conn' = [conn EXCEPT ![s] = "closed"]
  /\ UNCHANGED << impl, node, store, strokes, inbox, userId, tasks, pipe, board, got, sent,
                  ops, regs, applied, prior, pending, dropped >>

----------------------------------------------------------------------------
(* Both files: the guard of draw, clear-all and clear-mine *)

\* if (!userId) return;
Unregistered(s) ==
  /\ conn[s] = "open"
  /\ userId[s] = NoId
  /\ dropped < MaxDropped
  /\ dropped' = dropped + 1
  /\ UNCHANGED << impl, node, store, strokes, inbox, conn, userId, tasks,
                  pipe, board, got, sent, ops, regs, applied, prior, pending >>

----------------------------------------------------------------------------
(* src/server.js *)

\* subscriber, case "init-sync": suspends in loadBoardFromRedis
SubInitSync(n, ok) ==
  /\ impl = "pubsub"
  /\ inbox[n] # << >>
  /\ Head(inbox[n]).type = "init-sync"
  /\ inbox' = [inbox EXCEPT ![n] = Tail(@)]
  /\ IF ok
     THEN Spawn(Task("sync", NoId, n, "assign", 0, NoStroke,
                     loadBoardFromRedis, << >>))
     ELSE UNCHANGED << tasks, pipe >>
  /\ UNCHANGED << impl, node, store, strokes, conn, userId, board, got, sent, ops,
                  regs, applied, prior, pending, dropped >>

\* strokes = await loadBoardFromRedis()
SyncAssign(t) ==
  /\ t \in tasks /\ t.kind = "sync" /\ t.pc = "assign"
  /\ strokes' = [strokes EXCEPT ![t.node] = t.board]
  /\ Finish(t)
  /\ UNCHANGED << impl, node, store, inbox, conn, userId, board, got, sent, ops,
                  regs, applied, prior, pending, dropped >>

\* subscriber, case "draw"
SubDraw(n) ==
  /\ impl = "pubsub"
  /\ inbox[n] # << >>
  /\ Head(inbox[n]).type = "draw"
  /\ inbox' = [inbox EXCEPT ![n] = Tail(@)]
  /\ strokes' = [strokes EXCEPT ![n] = Append(@, Head(inbox[n]).payload)]
  /\ Push(LocalSockets(n), "draw", Head(inbox[n]).payload)
  /\ UNCHANGED << impl, node, store, conn, userId, tasks, pipe, ops, regs, applied,
                  prior, pending, dropped >>

\* subscriber, default: break
SubDefault(n) ==
  /\ impl = "pubsub"
  /\ inbox[n] # << >>
  /\ Head(inbox[n]).type \notin KnownTypes
  /\ inbox' = [inbox EXCEPT ![n] = Tail(@)]
  /\ UNCHANGED << impl, node, store, strokes, conn, userId, tasks, pipe,
                  board, got, sent, ops, regs, applied, prior, pending,
                  dropped >>

\* mutant: the clear-all event is forwarded but the cache is kept
SubClearAllKeepCache(n) ==
  /\ impl = "pubsub"
  /\ inbox[n] # << >>
  /\ Head(inbox[n]).type = "clear-all"
  /\ inbox' = [inbox EXCEPT ![n] = Tail(@)]
  /\ Push(LocalSockets(n), "clear-all", << >>)
  /\ UNCHANGED << impl, node, store, strokes, conn, userId, tasks, pipe, ops, regs,
                  applied, prior, pending, dropped >>

\* subscriber, case "clear-all"
SubClearAll(n) ==
  /\ impl = "pubsub"
  /\ inbox[n] # << >>
  /\ Head(inbox[n]).type = "clear-all"
  /\ inbox' = [inbox EXCEPT ![n] = Tail(@)]
  /\ strokes' = [strokes EXCEPT ![n] = << >>]
  /\ Push(LocalSockets(n), "clear-all", << >>)
  /\ UNCHANGED << impl, node, store, conn, userId, tasks, pipe, ops, regs, applied,
                  prior, pending, dropped >>

\* subscriber, case "clear-user"
SubClearUser(n) ==
  /\ impl = "pubsub"
  /\ inbox[n] # << >>
  /\ Head(inbox[n]).type = "clear-user"
  /\ inbox' = [inbox EXCEPT ![n] = Tail(@)]
  /\ strokes' = [strokes EXCEPT
                   ![n] = Filter(@, Head(inbox[n]).payload.userId)]
  /\ Push(LocalSockets(n), "reset-board", strokes'[n])
  /\ UNCHANGED << impl, node, store, conn, userId, tasks, pipe, ops, regs, applied,
                  prior, pending, dropped >>

\* mutant: the register handler serves the board from the node's cache
RegisterFromCache(s, given, ok) ==
  /\ impl = "pubsub"
  /\ conn[s] = "open"
  /\ regs < MaxRegs
  /\ regs' = regs + 1
  /\ userId' = [userId EXCEPT ![s] = AssignUserId(s, given)]
  /\ IF ok
     THEN Spawn(Task("register", s, node[s], "emit", 0, NoStroke,
                     strokes[node[s]], << >>))
     ELSE UNCHANGED << tasks, pipe >>
  /\ UNCHANGED << impl, node, store, strokes, inbox, conn, board, got, sent, ops,
                  applied, prior, pending, dropped >>

\* socket.on("register"): assign userId, emit user-info, read the board
Register(s, given, ok) ==
  /\ impl = "pubsub"
  /\ conn[s] = "open"
  /\ regs < MaxRegs
  /\ regs' = regs + 1
  /\ userId' = [userId EXCEPT ![s] = AssignUserId(s, given)]
  /\ IF ok
     THEN Spawn(Task("register", s, node[s], "emit", 0, NoStroke,
                     loadBoardFromRedis, << >>))
     ELSE UNCHANGED << tasks, pipe >>
  /\ UNCHANGED << impl, node, store, strokes, inbox, conn, board, got, sent, ops,
                  applied, prior, pending, dropped >>

\* socket.emit("init-board", board)
RegisterEmit(t) ==
  /\ impl = "pubsub"
  /\ t \in tasks /\ t.kind = "register" /\ t.pc = "emit"
  /\ Push({t.sess}, "init-board", t.board)
  /\ Finish(t)
  /\ UNCHANGED << impl, node, store, strokes, inbox, conn, userId, ops, regs,
                  applied, prior, pending, dropped >>

\* mutant: draw without its guard
DrawUnguarded(s, d, ok) ==
  /\ impl = "pubsub"
  /\ conn[s] = "open"
  /\ ops < MaxOps
  /\ d = ops + 1
  /\ ops' = ops + 1
  /\ IF ok
     THEN /\ store' = Append(store, Stringify(MakeStroke(DrawPayload(s, d), userId[s])))
          /\ applied' = applied \cup {Done(d, "draw", s, userId[s])}
          /\ Spawn(Task("draw", s, node[s], "publish", d,
                        MakeStroke(DrawPayload(s, d), userId[s]), << >>, << >>))
     ELSE UNCHANGED << store, applied, tasks, pipe >>
  /\ UNCHANGED << impl, node, strokes, inbox, conn, userId, board, got, sent,
                  regs, prior, pending, dropped >>

\* mutant: the stroke is pushed at the head of the list (lPush for rPush)
DrawAtHead(s, d, ok) ==
  /\ impl = "pubsub"
  /\ conn[s] = "open"
  /\ userId[s] # NoId
  /\ ops < MaxOps
  /\ d = ops + 1
  /\ ops' = ops + 1
  /\ IF ok
     THEN /\ store' = << Stringify(MakeStroke(DrawPayload(s, d), userId[s])) >>
                        \o store
          /\ applied' = applied \cup {Done(d, "draw", s, userId[s])}
          /\ Spawn(Task("draw", s, node[s], "publish", d,
                        MakeStroke(DrawPayload(s, d), userId[s]), << >>, << >>))
     ELSE UNCHANGED << store, applied, tasks, pipe >>
  /\ UNCHANGED << impl, node, strokes, inbox, conn, userId, board, got, sent, regs,
                  prior, pending, dropped >>

\* mutant: the rejection of rPush is swallowed and the event published
DrawIgnoringFailure(s, d, ok) ==
  /\ impl = "pubsub"
  /\ conn[s] = "open"
  /\ userId[s] # NoId
  /\ ops < MaxOps
  /\ d = ops + 1
  /\ ops' = ops + 1
  /\ Spawn(Task("draw", s, node[s], "publish", d,
                MakeStroke(DrawPayload(s, d), userId[s]), << >>, << >>))
  /\ IF ok
     THEN /\ store' = Append(store, Stringify(MakeStroke(DrawPayload(s, d), userId[s])))
          /\ applied' = applied \cup {Done(d, "draw", s, userId[s])}
     ELSE UNCHANGED << store, applied >>
  /\ UNCHANGED << impl, node, strokes, inbox, conn, userId, board, got, sent, regs,
                  prior, pending, dropped >>

\* socket.on("draw"): guard, build the stroke, rPush it
Draw(s, d, ok) ==
  /\ impl = "pubsub"
  /\ conn[s] = "open"
  /\ userId[s] # NoId
  /\ ops < MaxOps
  /\ d = ops + 1
  /\ ops' = ops + 1
  /\ IF ok
     THEN /\ store' = Append(store, Stringify(MakeStroke(DrawPayload(s, d), userId[s])))
          /\ applied' = applied \cup {Done(d, "draw", s, userId[s])}
          /\ Spawn(Task("draw", s, node[s], "publish", d,
                        MakeStroke(DrawPayload(s, d), userId[s]), << >>, << >>))
     ELSE UNCHANGED << store, applied, tasks, pipe >>
  /\ UNCHANGED << impl, node, strokes, inbox, conn, userId, board, got, sent, regs,
                  prior, pending, dropped >>

\* mutant: the handler publishes only while its connection is open
DrawPublishIfOpen(t) ==
  /\ impl = "pubsub"
  /\ conn[t.sess] = "open"
  /\ t \in tasks /\ t.kind = "draw" /\ t.pc = "publish"
  /\ Publish(Msg("draw", t.stroke, t.op, t.sess, NoId))
  /\ Finish(t)
  /\ UNCHANGED << impl, node, store, strokes, conn, userId, board, got, sent,
                  ops, regs, applied, prior, pending, dropped >>

\* await redisClient.publish(REDIS_CHANNEL, {type: "draw", payload: stroke})
DrawPublish(t) ==
  /\ impl = "pubsub"
  /\ t \in tasks /\ t.kind = "draw" /\ t.pc = "publish"
  /\ Publish(Msg("draw", t.stroke, t.op, t.sess, NoId))
  /\ Finish(t)
  /\ UNCHANGED << impl, node, store, strokes, conn, userId, board, got, sent, ops,
                  regs, applied, prior, pending, dropped >>

\* socket.on("clear-all"): guard, del the list
ClearAll(s, ok) ==
  /\ impl = "pubsub"
  /\ conn[s] = "open"
  /\ userId[s] # NoId
  /\ ops < MaxOps
  /\ ops' = ops + 1
  /\ IF ok
     THEN /\ store' = << >>
          /\ applied' = applied \cup {Done(ops + 1, "clear-all", s, userId[s])}
          /\ Spawn(Task("clear-all", s, node[s], "publish", ops + 1,
                        NoStroke, << >>, << >>))
     ELSE UNCHANGED << store, applied, tasks, pipe >>
  /\ UNCHANGED << impl, node, strokes, inbox, conn, userId, board, got, sent, regs,
                  prior, pending, dropped >>

\* await redisClient.publish(REDIS_CHANNEL, {type: "clear-all"})
ClearAllPublish(t) ==
  /\ impl = "pubsub"
  /\ t \in tasks /\ t.kind = "clear-all" /\ t.pc = "publish"
  /\ Publish(Msg("clear-all", NoStroke, t.op, t.sess, NoId))
  /\ Finish(t)
  /\ UNCHANGED << impl, node, store, strokes, conn, userId, board, got, sent, ops,
                  regs, applied, prior, pending, dropped >>

\* socket.on("clear-mine"): guard, read the board, filter it
ClearMine(s, ok) ==
  /\ impl = "pubsub"
  /\ conn[s] = "open"
  /\ userId[s] # NoId
  /\ ops < MaxOps
  /\ ops' = ops + 1
  /\ IF ok
     THEN Spawn(Task("clear-mine", s, node[s], "del", ops + 1,
                     [data |-> 0, userId |-> userId[s]],
                     loadBoardFromRedis,
                     Filter(loadBoardFromRedis, userId[s])))
     ELSE UNCHANGED << tasks, pipe >>
  /\ UNCHANGED << impl, node, store, strokes, inbox, conn, userId, board, got, sent,
                  regs, applied, prior, pending, dropped >>

\* await redisClient.del(REDIS_LIST_KEY); if (remaining.length > 0) ...
ClearMineDel(t) ==
  /\ impl = "pubsub"
  /\ t \in tasks /\ t.kind = "clear-mine" /\ t.pc = "del"
  /\ store' = << >>
  /\ IF Len(t.remaining) > 0
     THEN /\ Advance(t, Goto(t, "rewrite"))
          /\ UNCHANGED applied
     ELSE /\ Advance(t, Goto(t, "publish"))
          /\ applied' = applied \cup {Done(t.op, "clear-mine", t.sess, t.stroke.userId)}
  /\ UNCHANGED << impl, node, strokes, inbox, conn, userId, board, got, sent, ops,
                  regs, prior, pending, dropped >>

\* mutant: the remainder is not written back
ClearMineRewriteNothing(t) ==
  /\ impl = "pubsub"
  /\ t \in tasks /\ t.kind = "clear-mine" /\ t.pc = "rewrite"
  /\ store' = store
  /\ applied' = applied \cup {Done(t.op, "clear-mine", t.sess, t.stroke.userId)}
  /\ Advance(t, Goto(t, "publish"))
  /\ UNCHANGED << impl, node, strokes, inbox, conn, userId, board, got, sent, ops,
                  regs, prior, pending, dropped >>

\* await redisClient.rPush(REDIS_LIST_KEY, remaining.map(JSON.stringify))
ClearMineRewrite(t) ==
  /\ impl = "pubsub"
  /\ t \in tasks /\ t.kind = "clear-mine" /\ t.pc = "rewrite"
  /\ store' = store \o StringifyAll(t.remaining)
  /\ applied' = applied \cup {Done(t.op, "clear-mine", t.sess, t.stroke.userId)}
  /\ Advance(t, Goto(t, "publish"))
  /\ UNCHANGED << impl, node, strokes, inbox, conn, userId, board, got, sent, ops,
                  regs, prior, pending, dropped >>

\* await redisClient.publish(REDIS_CHANNEL, {type: "clear-user", payload: {userId}})
ClearMinePublish(t) ==
  /\ impl = "pubsub"
  /\ t \in tasks /\ t.kind = "clear-mine" /\ t.pc = "publish"
  /\ Publish(Msg("clear-user", [data |-> 0, userId |-> t.stroke.userId],
                 t.op, t.sess, NoId))
  /\ Finish(t)
  /\ UNCHANGED << impl, node, store, strokes, conn, userId, board, got, sent, ops,
                  regs, applied, prior, pending, dropped >>

(* src/unnamed/part_000 *)

\* socket.on("register"): assign userId, emit user-info, read the board
AdRegister(s, given, ok) ==
  /\ impl = "adapter"
  /\ conn[s] = "open"
  /\ regs < MaxRegs
  /\ regs' = regs + 1
  /\ userId' = [userId EXCEPT ![s] = AssignUserId(s, given)]
  /\ IF ok
     THEN Spawn(Task("register", s, node[s], "emit", 0, NoStroke,
                     getFullBoard, << >>))
     ELSE UNCHANGED << tasks, pipe >>
  /\ UNCHANGED << impl, node, store, strokes, inbox, conn, board, got, sent, ops,
                  applied, prior, pending, dropped >>

\* socket.emit("init-board", strokes)
AdRegisterEmit(t) ==
  /\ impl = "adapter"
  /\ t \in tasks /\ t.kind = "register" /\ t.pc = "emit"
  /\ Push({t.sess}, "init-board", t.board)
  /\ Finish(t)
  /\ UNCHANGED << impl, node, store, strokes, inbox, conn, userId, ops, regs,
                  applied, prior, pending, dropped >>

\* socket.on("draw"): guard, build the stroke, rPush it
AdDraw(s, d, ok) ==
  /\ impl = "adapter"
  /\ conn[s] = "open"
  /\ userId[s] # NoId
  /\ ops < MaxOps
  /\ d = ops + 1
  /\ ops' = ops + 1
  /\ IF ok
     THEN /\ store' = Append(store, Stringify(MakeStroke(DrawPayload(s, d), userId[s])))
          /\ applied' = applied \cup {Done(d, "draw", s, userId[s])}
          /\ Spawn(Task("draw", s, node[s], "publish", d,
                        MakeStroke(DrawPayload(s, d), userId[s]), << >>, << >>))
     ELSE UNCHANGED << store, applied, tasks, pipe >>
  /\ UNCHANGED << impl, node, strokes, inbox, conn, userId, board, got, sent, regs,
                  prior, pending, dropped >>

\* mutant: io.emit for socket.broadcast.emit, the sender gets the stroke too
AdDrawEmitAll(t) ==
  /\ impl = "adapter"
  /\ t \in tasks /\ t.kind = "draw" /\ t.pc = "publish"
  /\ Push(LocalSockets(t.node), "draw", t.stroke)
  /\ PublishOthers(Msg("draw", t.stroke, t.op, t.sess, t.sess), t.node)
  /\ Finish(t)
  /\ UNCHANGED << impl, node, store, strokes, conn, userId, ops, regs,
                  applied, prior, pending, dropped >>

\* socket.broadcast.emit("draw", stroke): every socket but the sender's,
\* at once on this node and through the adapter's channel on the others
AdDrawBroadcast(t) ==
  /\ impl = "adapter"
  /\ t \in tasks /\ t.kind = "draw" /\ t.pc = "publish"
  /\ Push(LocalSockets(t.node) \ {t.sess}, "draw", t.stroke)
  /\ PublishOthers(Msg("draw", t.stroke, t.op, t.sess, t.sess), t.node)
  /\ Finish(t)
  /\ UNCHANGED << impl, node, store, strokes, conn, userId, ops, regs,
                  applied, prior, pending, dropped >>

\* socket.on("clear-all"): guard, del the list
AdClearAll(s, ok) ==
  /\ impl = "adapter"
  /\ conn[s] = "open"
  /\ userId[s] # NoId
  /\ ops < MaxOps
  /\ ops' = ops + 1
  /\ IF ok
     THEN /\ store' = << >>
          /\ applied' = applied \cup {Done(ops + 1, "clear-all", s, userId[s])}
          /\ Spawn(Task("clear-all", s, node[s], "publish", ops + 1,
                        NoStroke, << >>, << >>))
     ELSE UNCHANGED << store, applied, tasks, pipe >>
  /\ UNCHANGED << impl, node, strokes, inbox, conn, userId, board, got, sent, regs,
                  prior, pending, dropped >>

\* io.emit("clear-all")
AdClearAllEmit(t) ==
  /\ impl = "adapter"
  /\ t \in tasks /\ t.kind = "clear-all" /\ t.pc = "publish"
  /\ Push(LocalSockets(t.node), "clear-all", << >>)
  /\ PublishOthers(Msg("clear-all", NoStroke, t.op, t.sess, NoId), t.node)
  /\ Finish(t)
  /\ UNCHANGED << impl, node, store, strokes, conn, userId, ops, regs,
                  applied, prior, pending, dropped >>

\* socket.on("clear-mine"): guard, read the board, filter it
AdClearMine(s, ok) ==
  /\ impl = "adapter"
  /\ conn[s] = "open"
  /\ userId[s] # NoId
  /\ ops < MaxOps
  /\ ops' = ops + 1
  /\ IF ok
     THEN Spawn(Task("clear-mine", s, node[s], "del", ops + 1,
                     [data |-> 0, userId |-> userId[s]],
                     getFullBoard,
                     Filter(getFullBoard, userId[s])))
     ELSE UNCHANGED << tasks, pipe >>
  /\ UNCHANGED << impl, node, store, strokes, inbox, conn, userId, board, got, sent,
                  regs, applied, prior, pending, dropped >>

\* await dbClient.del(STROKE_KEY); if (remaining.length) ...
AdClearMineDel(t) ==
  /\ impl = "adapter"
  /\ t \in tasks /\ t.kind = "clear-mine" /\ t.pc = "del"
  /\ store' = << >>
  /\ IF Len(t.remaining) # 0
     THEN /\ Advance(t, Goto(t, "rewrite"))
          /\ UNCHANGED applied
     ELSE /\ Advance(t, Goto(t, "publish"))
          /\ applied' = applied \cup {Done(t.op, "clear-mine", t.sess, t.stroke.userId)}
  /\ UNCHANGED << impl, node, strokes, inbox, conn, userId, board, got, sent, ops,
                  regs, prior, pending, dropped >>

\* await dbClient.rPush(STROKE_KEY, remaining.map(JSON.stringify))
AdClearMineRewrite(t) ==
  /\ impl = "adapter"
  /\ t \in tasks /\ t.kind = "clear-mine" /\ t.pc = "rewrite"
  /\ store' = store \o StringifyAll(t.remaining)
  /\ applied' = applied \cup {Done(t.op, "clear-mine", t.sess, t.stroke.userId)}
  /\ Advance(t, Goto(t, "publish"))
  /\ UNCHANGED << impl, node, strokes, inbox, conn, userId, board, got, sent, ops,
                  regs, prior, pending, dropped >>

\* io.emit("reset-board", remaining)
AdClearMineEmit(t) ==
  /\ impl = "adapter"
  /\ t \in tasks /\ t.kind = "clear-mine" /\ t.pc = "publish"
  /\ Push(LocalSockets(t.node), "reset-board", t.remaining)
  /\ PublishOthers(Msg("reset-board", t.remaining, t.op, t.sess, NoId), t.node)
  /\ Finish(t)
  /\ UNCHANGED << impl, node, store, strokes, conn, userId, ops, regs,
                  applied, prior, pending, dropped >>

\* the adapter of another node receives a broadcast packet and emits it to
\* its own sockets (createAdapter(pubClient, subClient))
AdapterDeliver(n) ==
  /\ impl = "adapter"
  /\ inbox[n] # << >>
  /\ inbox' = [inbox EXCEPT ![n] = Tail(@)]
  /\ Push(LocalSockets(n) \ {Head(inbox[n]).except},
          Head(inbox[n]).type, Head(inbox[n]).payload)
  /\ UNCHANGED << impl, node, store, strokes, conn, userId, tasks, pipe, ops, regs,
                  applied, prior, pending, dropped >>

----------------------------------------------------------------------------
\* a later Store call of a handler rejects: the async handler ends there
StoreFail(t) ==
  /\ t \in tasks
  /\ t.pc \in {"del", "rewrite"}
  /\ Finish(t)
  /\ UNCHANGED << impl, node, store, strokes, inbox, conn, userId, board, got, sent,
                  ops, regs, applied, prior, pending, dropped >>

----------------------------------------------------------------------------
(* The system *)

\* connection s sends a command; ok: its first Store call succeeds
Command(s, ok) ==
  \/ \E g \in RegisterInputs(s) : Register(s, g, ok)
  \/ \E d \in 1..MaxOps : Draw(s, d, ok)
  \/ ClearAll(s, ok)
  \/ ClearMine(s, ok)
  \/ \E g \in RegisterInputs(s) : AdRegister(s, g, ok)
  \/ \E d \in 1..MaxOps : AdDraw(s, d, ok)
  \/ AdClearAll(s, ok)
  \/ AdClearMine(s, ok)

\* a suspended handler resumes
Resume ==
  \/ \E t \in tasks : RegisterEmit(t)
  \/ \E t \in tasks : DrawPublish(t)
  \/ \E t \in tasks : ClearAllPublish(t)
  \/ \E t \in tasks : ClearMineDel(t)
  \/ \E t \in tasks : ClearMineRewrite(t)
  \/ \E t \in tasks : ClearMinePublish(t)
  \/ \E t \in tasks : AdRegisterEmit(t)
  \/ \E t \in tasks : AdDrawBroadcast(t)
  \/ \E t \in tasks : AdClearAllEmit(t)
  \/ \E t \in tasks : AdClearMineDel(t)
  \/ \E t \in tasks : AdClearMineRewrite(t)
  \/ \E t \in tasks : AdClearMineEmit(t)

\* a node handles the next bus message
Deliver ==
  \/ \E n \in Nodes : SubDraw(n)
  \/ \E n \in Nodes : SubClearAll(n)
  \/ \E n \in Nodes : SubClearUser(n)
  \/ \E n \in Nodes : AdapterDeliver(n)

\* a node handles a message it has no case for
Skip == \E n \in Nodes : SubDefault(n)

\* a node reloads its cache
Sync ==
  \/ \E n \in Nodes : SubInitSync(n, TRUE)
  \/ \E t \in tasks : SyncAssign(t)

\* a Store call is rejected
Failure ==
  \/ \E s \in Sessions : Command(s, FALSE)
  \/ \E n \in Nodes : SubInitSync(n, FALSE)
  \/ \E t \in tasks : StoreFail(t)

Next ==
  \/ \E s \in Sessions : Command(s, TRUE)
  \/ Resume
  \/ Deliver
  \/ Sync
  \/ Failure
  \/ \E s \in Sessions : Disconnect(s)
  \/ \E s \in Sessions : Unregistered(s)
  \/ Skip

\* every interleaving of commands, handlers, deliveries and failures
Spec == Init /\ [][Next]_vars

----------------------------------------------------------------------------
(* Restricted environments, small enough to explore exhaustively *)

\* a command of connection s is still being handled or delivered
Busy(s) ==
  \/ \E t \in tasks : t.sess = s
  \/ \E n \in Nodes : \E i \in 1..Len(inbox[n]) : inbox[n][i].from = s

\* no command is being handled or delivered (an init-sync may be)
Quiet == \A s \in Sessions : ~Busy(s)

\* Clients work in lock step: a connection sends its next command when the
\* previous one has been handled and delivered everywhere.  Commands of
\* different connections overlap freely.  No Store failure, no disconnect,
\* every init-sync handled before the clients arrive.
NextLockStep ==
  \/ \E s \in Sessions : ~Busy(s) /\ Command(s, TRUE)
  \/ Resume
  \/ Deliver

SpecLockStep == Start({NoId}, Landing, PriorBoards, {<< >>}) /\ [][NextLockStep]_vars

\* One command at a time: a command is sent when no other is in flight.
\* Store calls may fail and an init-sync may still be in flight.
NextSeq ==
  \/ \E s \in Sessions : Quiet /\ Command(s, TRUE)
  \/ Resume
  \/ Deliver
  \/ Sync
  \/ Quiet /\ Failure
  \/ \E t \in tasks : StoreFail(t)

SpecSeq == Init /\ [][NextSeq]_vars

\* One command at a time and no Store call is rejected; an init-sync may
\* still be in flight.
NextSeqOk ==
  \/ \E s \in Sessions : Quiet /\ Command(s, TRUE)
  \/ Resume
  \/ Deliver
  \/ Sync

SpecSeqOk == Init /\ [][NextSeqOk]_vars

\* One command at a time on a board that holds strokes, the two connections
\* on different nodes; clients may disconnect at any moment; a handler
\* that can resume does, and a node handles the messages it has received
\* (the event loop runs every ready callback).
NextLive ==
  \/ \E s \in Sessions : Quiet /\ Command(s, TRUE)
  \/ Resume
  \/ Deliver
  \/ \E s \in Sessions : Disconnect(s)

\* One command at a time, no Store failure; another publisher has put a
\* malformed message on the channel.
NextMalformed ==
  \/ \E s \in Sessions : Quiet /\ Command(s, TRUE)
  \/ Resume
  \/ Deliver
  \/ Sync
  \/ Skip

SpecMalformed ==
  /\ Start(PendingNodes \cup {NoId}, Landing, PriorBoards,
           {<< m >> : m \in Malformed})
  /\ [][NextMalformed]_vars

\* One client: connection s1 sends its commands without waiting for the
\* handlers of the earlier ones (socket.io runs a listener for each
\* packet as it arrives).
NextOverlap ==
  \/ Command("s1", TRUE)
  \/ Resume
  \/ Deliver

SpecOverlap == Start({NoId}, Landing, PriorBoards, {<< >>}) /\ [][NextOverlap]_vars

\* One command at a time; a connection that has not registered may send
\* draw, clear-all and clear-mine at any moment.
NextGuard ==
  \/ \E s \in Sessions : Quiet /\ Command(s, TRUE)
  \/ Resume
  \/ Deliver
  \/ \E s \in Sessions : Unregistered(s)

SpecGuard == Start({NoId}, Landing, PriorBoards, {<< >>}) /\ [][NextGuard]_vars

SpecLive ==
  /\ Start({NoId}, Apart, PriorBoards \ {<< >>}, {<< >>})
  /\ [][NextLive]_vars
  /\ WF_vars(Resume) /\ WF_vars(Deliver)

----------------------------------------------------------------------------
(* Observations used by the properties *)

\* what readAll() returns in this state
ReadAll == ParseAll(store)

InFlight(op) ==
  \/ \E t \in tasks : t.op = op
  \/ \E n \in Nodes : \E i \in 1..Len(inbox[n]) : inbox[n][i].op = op

\* nothing is being handled or delivered
Quiescent == tasks = {} /\ \A n \in Nodes : inbox[n] = << >>

Wrote(op) == \E a \in applied : a.op = op

----------------------------------------------------------------------------
(* C1 - Bootstrap correctness: the board a register handler reads is the   *)
(* Store's contents at that moment, and the init-board it then sends to    *)
(* its client is that board, on whichever node and whatever the node's     *)
(* cache holds.                                                            *)
C1_BootstrapFromStore ==
  [][ /\ \A t \in tasks' \ tasks :
           t.kind = "register" => StringifyAll(t.board) = store
      /\ \A t \in tasks \ tasks' :
           t.kind = "register" /\ conn[t.sess] = "open"
             => sent'[t.sess] = [ev |-> "init-board", payload |-> t.board] ]_vars

\* a register handler has read a non-empty board after some command ran,
\* on a node whose cache holds something else
C1_Witness ==
  \E t \in tasks :
    /\ t.kind = "register"
    /\ t.board # << >>
    /\ ops > 0
    /\ impl = "pubsub"
    /\ strokes[t.node] # t.board

(* C2 - Convergence: in every quiescent state the board of every          *)
(* registered client equals the Store's contents.  Stated for server.js,   *)
(* whose io.emit also reaches the sender of a draw (part_000 never pushes  *)
(* a stroke to its sender, see C8).                                        *)
C2_Convergence ==
  Quiescent /\ impl = "pubsub" =>
    \A s \in Sessions :
      conn[s] = "open" /\ userId[s] # NoId => board[s] = ReadAll

(* C3 - Write-before-publish: a handler is at its publish only when its   *)
(* Store writes have completed, every event on the bus stems from a        *)
(* command whose writes have completed, and every stroke a client got in   *)
(* a draw push was appended to the Store before.                           *)
C3_WriteBeforePublish ==
  /\ \A t \in tasks : t.pc = "publish" => Wrote(t.op)
  /\ \A n \in Nodes : \A i \in 1..Len(inbox[n]) :
       inbox[n][i].type # "init-sync" => Wrote(inbox[n][i].op)
  /\ \A s \in Sessions : \A d \in got[s] :
       \E a \in applied : a.op = d /\ a.kind = "draw"

\* a client has received a draw push while a clear event is on the bus
C3_Witness ==
  /\ \E s \in Sessions : got[s] # {}
  /\ \E n \in Nodes : \E i \in 1..Len(inbox[n]) :
       inbox[n][i].type \in {"clear-all", "clear-user", "reset-board"}

(* C4 - StoreUnavailable: when a Store call of a command handler is      *)
(* rejected, the handler ends there, nothing is published, no client's     *)
(* board changes and the Store holds what it held before the command (so   *)
(* a later register receives the same board).  With one command at a time  *)
(* the Store before a clear-mine is the board that handler read.           *)
C4_StoreUnavailable ==
  [][ /\ (ops' = ops + 1 /\ tasks' = tasks)
           => inbox' = inbox /\ sent' = sent /\ got' = got /\ store' = store
      /\ \A t \in tasks :
           t.pc \in {"del", "rewrite"} /\ tasks' = tasks \ {t}
             => /\ inbox' = inbox /\ sent' = sent /\ got' = got
                /\ ReadAll' = t.board ]_vars

(* C5 - clear-mine: when the handler of a clear-mine of user U reaches its *)
(* publish, the Store holds the board it read without the strokes of U, in *)
(* their order; and the reset-board any node then pushes sets the board of *)
(* its registered clients to the Store's contents, whatever its cache held. *)
C5_ClearMineRemainder ==
  [][ /\ \A t \in tasks : \A t2 \in tasks' \ tasks :
           /\ t.kind = "clear-mine" /\ t.pc \in {"del", "rewrite"}
           /\ t2 = Goto(t, "publish")
           => /\ ReadAll' = Filter(t.board, t.stroke.userId)
              /\ \A i \in 1..Len(ReadAll') :
                   ReadAll'[i].userId # t.stroke.userId
      /\ \A n \in Nodes :
           /\ inbox[n] # << >>
           /\ inbox'[n] = Tail(inbox[n])
           /\ Head(inbox[n]).type \in {"clear-user", "reset-board"}
           => \A c \in LocalSockets(n) :
                conn[c] = "open" /\ userId[c] # NoId
                  => sent'[c] = [ev |-> "reset-board", payload |-> ReadAll]
      /\ \A t \in tasks :
           /\ impl = "adapter" /\ t.kind = "clear-mine" /\ t.pc = "publish"
           /\ tasks' = tasks \ {t}
           => \A c \in LocalSockets(t.node) :
                conn[c] = "open" /\ userId[c] # NoId
                  => sent'[c] = [ev |-> "reset-board", payload |-> ReadAll] ]_vars

(* C6 - Append order: a draw appends its stroke at the tail of the Store   *)
(* and leaves the strokes before it in place; while no clear has been      *)
(* sent, the Store reads as the prior board followed by the strokes of the *)
(* draws in the order their appends completed.                             *)
C6_AppendOrder ==
  /\ [][ \A t \in tasks' \ tasks :
           t.kind = "draw" /\ t.pc = "publish"
             => ReadAll' = Append(ReadAll, t.stroke) ]_vars
  /\ []( (\A a \in applied : a.kind = "draw")
         /\ (\A t \in tasks : t.kind \in {"draw", "register"})
         => /\ Len(ReadAll) = Len(prior) + ops
            /\ \A i \in 1..Len(prior) : ReadAll[i] = Parse(prior[i])
            /\ \A i \in 1..ops :
                 /\ ReadAll[Len(prior) + i].data = i
                 /\ \E a \in applied :
                      a.op = i /\ a.user = ReadAll[Len(prior) + i].userId )

\* two users on two nodes have drawn onto a non-empty board
C6_Witness ==
  /\ prior # << >>
  /\ \E a, b \in applied :
       /\ a.kind = "draw" /\ b.kind = "draw"
       /\ a.op = 1 /\ b.op = 2
       /\ a.user # b.user
       /\ node[a.sess] # node[b.sess]
  /\ Len(store) = Len(prior) + 2

(* C7 - Cross-node fan-out: once a draw of a session on one node has been *)
(* appended, every client connected to another node eventually receives a  *)
(* draw push for it, unless that client disconnects.                       *)
C7_CrossNodeFanOut ==
  \A c \in Sessions : \A d \in 1..MaxOps :
    (/\ conn[c] = "open"
     /\ \E a \in applied :
          a.op = d /\ a.kind = "draw" /\ node[a.sess] # node[c])
      ~> (d \in got[c] \/ conn[c] = "closed")

\* a connected client on another node than the sender's has received the
\* push of a draw
C7_Witness ==
  \E c \in Sessions : \E a \in applied :
    /\ a.kind = "draw"
    /\ node[a.sess] # node[c]
    /\ conn[c] = "open"
    /\ a.op \in got[c]

(* C8 - Draw push to all clients: once a draw has been handled and its   *)
(* event delivered on every node, every connected client, the sender       *)
(* included, has received the draw push of its stroke.                     *)
C8_DrawPushAll ==
  \A a \in applied :
    a.kind = "draw" /\ ~InFlight(a.op)
      => \A c \in Sessions : conn[c] = "open" => a.op \in got[c]

(* C8 as the code has it: in server.js every connected client receives the *)
(* draw push, the sender included; in part_000 every connected client but  *)
(* the sender receives it, and the sender never does.                      *)
C8_DrawPushOthers ==
  \A a \in applied :
    a.kind = "draw" /\ ~InFlight(a.op)
      => \A c \in Sessions :
           conn[c] = "open"
             => IF impl = "adapter" /\ c = a.sess
                THEN a.op \notin got[c]
                ELSE a.op \in got[c]

\* part_000 has delivered a draw to the other client and not to its sender
C8_Witness ==
  \E a \in applied : \E c \in Sessions :
    /\ impl = "adapter"
    /\ a.kind = "draw" /\ ~InFlight(a.op)
    /\ c # a.sess
    /\ a.op \in got[c]
    /\ a.op \notin got[a.sess]

\* command k was a clear-all and its del succeeded
ClearedAll(k) == \E a \in applied : a.op = k /\ a.kind = "clear-all"

\* the last event emitted to socket s leaves its client with an empty board
ShowsEmpty(s) ==
  \/ sent[s].ev = "clear-all"
  \/ sent[s].ev \in {"init-board", "reset-board"} /\ sent[s].payload = << >>

EmptyEverywhere ==
  /\ store = << >>
  /\ \A n \in Nodes : strokes[n] = << >>
  /\ \A s \in Sessions : conn[s] = "open" => ShowsEmpty(s)

Absent(k) == \A i \in 1..Len(ReadAll) : ReadAll[i].data # k

\* no clear-all ran and user u ran no clear-mine
NeverCleared(u) ==
  \A b \in applied :
    b.kind # "clear-all" /\ ~(b.kind = "clear-mine" /\ b.user = u)

\* the clear-mine commands whose Store writes have completed
ClearMines == {c \in applied : c.kind = "clear-mine"}

(* C10 - clear-mine race: a stroke X appended by a draw of u2 can be       *)
(* absent from the final Store although no clear-all and no clear-mine of  *)
(* u2 ran (C10_Witness is such a state).  When no Store call fails this    *)
(* happens only through a clear-mine of another user, and when a single    *)
(* clear-mine ran, only if it read the board before X was appended (a      *)
(* second clear-mine may also have read between the delete and the         *)
(* rewrite of the first).                                                  *)
C10_LossOnlyByRace ==
  Quiescent =>
    \A a \in applied :
      a.kind = "draw" /\ Absent(a.op) /\ NeverCleared(a.user)
        => /\ \E c \in ClearMines : c.user # a.user
           /\ Cardinality(ClearMines) = 1
                => \A c \in ClearMines : c.op < a.op

\* u1's clear-mine has read the board, u2's draw has appended X, the
\* clear-mine has rewritten its remainder: X is lost, the remainder is kept
C10_Witness ==
  /\ Quiescent
  /\ \E a, c \in applied :
       /\ a.kind = "draw" /\ Absent(a.op) /\ NeverCleared(a.user)
       /\ c.kind = "clear-mine" /\ c.user # a.user /\ c.op < a.op
       /\ ReadAll = Filter(ParseAll(prior), c.user)
       /\ ReadAll # << >>

(* C11 - Unregistered commands are no-ops: a draw, clear-all or clear-mine *)
(* received on a connection that has not registered returns at its guard:  *)
(* the Store, the bus, the pushes and the connection's userId stay as they *)
(* are, and no handler that touches the Store starts for a connection      *)
(* whose userId is not set.                                                *)
C11_UnregisteredNoOp ==
  [][ /\ dropped' # dropped
           => UNCHANGED << store, inbox, sent, got, board, userId, tasks,
                           strokes, applied >>
      /\ \A t \in tasks' \ tasks :
           t.kind \in {"draw", "clear-all", "clear-mine"}
             => userId[t.sess] # NoId
      /\ \A s \in Sessions :
           userId[s] = NoId /\ userId'[s] # NoId
             => \E t \in tasks' : t.kind = "register" /\ t.sess = s ]_vars

\* a command of an unregistered connection has returned at the guard while
\* a handler of the other connection is in flight
C11_Witness ==
  /\ dropped > 0
  /\ \E s \in Sessions : userId[s] = NoId /\ conn[s] = "open"
  /\ \E t \in tasks : t.kind \in {"draw", "clear-all", "clear-mine"}

(* C12 - Per-session serial processing: the effects of the commands of    *)
(* one connection on the Store occur in receipt order; in particular a     *)
(* draw received after a clear-mine on the same connection, and followed   *)
(* by no clear, is in the Store once everything has been handled.          *)
C12_SessionSerial ==
  Quiescent =>
    \A a, c \in applied :
      /\ a.kind = "draw" /\ c.kind = "clear-mine"
      /\ a.sess = c.sess /\ c.op < a.op
      /\ \A b \in applied : b.op > a.op => b.kind = "draw"
      => ~Absent(a.op)

(* C13 - Session identity is fixed: once register has assigned the userId  *)
(* of a connection, no later command on it, a second register included,    *)
(* changes it.                                                             *)
C13_IdentityFixed ==
  [][ \A s \in Sessions : userId[s] # NoId => userId'[s] = userId[s] ]_vars

(* C15 - The cache of server.js never diverges: in every quiescent state  *)
(* the local cache of each node equals the Store's contents.               *)
C15_CacheEqualsStore ==
  Quiescent /\ impl = "pubsub" => \A n \in Nodes : strokes[n] = ReadAll

IsMalformed(m) ==
  \/ m.type \notin KnownTypes
  \/ m.type \in {"draw", "clear-user"} /\ m.payload = NoStroke

(* C16 - MalformedEvent is ignored: when the subscriber of server.js       *)
(* handles a message with an unknown type tag, or a draw or clear-user     *)
(* without payload, the node's cache stays as it is and nothing is pushed  *)
(* to any client.                                                          *)
C16_MalformedIgnored ==
  [][ \A n \in Nodes :
        /\ inbox[n] # << >>
        /\ inbox'[n] = Tail(inbox[n])
        /\ IsMalformed(Head(inbox[n]))
        => strokes' = strokes /\ sent' = sent /\ got' = got ]_vars

(* C17 - Disconnect is effect-free and does not cancel: a disconnect      *)
(* touches neither the Store nor the bus nor any handler; a handler ends   *)
(* by publishing its event whether or not its connection is still open;    *)
(* and a command whose handler is in flight when its connection has        *)
(* closed still completes its Store writes and runs to its end.            *)
C17_DisconnectNoCancel ==
  /\ [][ /\ conn' # conn
              => UNCHANGED << store, inbox, tasks, pipe, strokes, sent,
                              applied >>
         /\ \A t \in tasks \ tasks' :
              t.pc = "publish"
                => \E n \in Nodes :
                     /\ Len(inbox'[n]) = Len(inbox[n]) + 1
                     /\ inbox'[n][Len(inbox'[n])].op = t.op ]_vars
  /\ \A k \in 1..MaxOps :
       (\E t \in tasks : t.op = k /\ conn[t.sess] = "closed")
         ~> (Wrote(k) /\ \A t \in tasks : t.op # k)

\* a clear-mine has deleted the list and not yet rewritten its remainder,
\* and its connection has closed
C17_Witness ==
  \E t \in tasks :
    t.kind = "clear-mine" /\ t.pc = "rewrite" /\ conn[t.sess] = "closed"

(* C18 - No duplication in the Store: no two positions of the Store list   *)
(* hold the same stroke (every stroke is drawn once), whatever the          *)
(* interleaving of draw, clear-all and clear-mine handlers.                *)
C18_NoDuplication ==
  \A i, j \in 1..Len(ReadAll) : ReadAll[i] = ReadAll[j] => i = j

(* C19 - No resurrection: once a clear-all has deleted the list, no stroke  *)
(* appended before that deletion is in the Store; once a clear-mine of     *)
(* user u has completed, no stroke of u appended before that clear-mine's  *)
(* read is in the Store.  (A command's number orders its first Store call: *)
(* a stroke numbered below a clear was appended before the clear's         *)
(* deletion, respectively before its read.)                                *)
C19_NoResurrection ==
  \A c \in applied : \A i \in 1..Len(ReadAll) :
    /\ c.kind = "clear-all" => ReadAll[i].data > c.op
    /\ c.kind = "clear-mine" /\ ReadAll[i].userId = c.user
         => ReadAll[i].data > c.op

\* stroke x is the one draw number x.data wrote, attributed to the user the
\* drawing session was registered as when its handler started
Attributed(x) ==
  \E a \in applied : a.kind = "draw" /\ a.op = x.data /\ a.user = x.userId

(* C20 - Stroke attribution: every stroke a draw appended to the Store and  *)
(* every stroke carried by a draw handler or a draw event bears the userId  *)
(* the drawing session had when the handler started, although the payload  *)
(* names another user; and the remainder a clear-mine of u computes from    *)
(* the board it reads leaves out exactly the strokes drawn as u.            *)
C20_Attribution ==
  /\ [](/\ \A i \in 1..Len(ReadAll) :
             ReadAll[i].data > 0 => Attributed(ReadAll[i])
        /\ \A t \in tasks : t.kind = "draw" => Attributed(t.stroke)
        /\ \A n \in Nodes : \A i \in 1..Len(inbox[n]) :
             inbox[n][i].type = "draw" => Attributed(inbox[n][i].payload))
  /\ [][ \A t \in tasks' \ tasks :
           t.kind = "clear-mine" /\ t.pc = "del"
             => \A i \in 1..Len(ReadAll) :
                  ReadAll[i].data > 0
                    => ((\E j \in 1..Len(t.remaining) :
                           t.remaining[j] = ReadAll[i])
                        <=> ~(\E a \in applied :
                                /\ a.kind = "draw" /\ a.op = ReadAll[i].data
                                /\ a.user = t.stroke.userId)) ]_vars

\* a stroke whose payload named u1 was drawn through a session registered as
\* another user, and is still in the Store after a later clear-mine of u1
C20_Witness ==
  \E a, c \in applied :
    /\ a.kind = "draw" /\ c.kind = "clear-mine" /\ c.op > a.op
    /\ DrawPayload(a.sess, a.op).userId = c.user
    /\ a.user # c.user
    /\ ~Absent(a.op)

====
